---- MODULE Spec2Model ----
(***************************************************************************)
(* Model of src/src/services/cart.service.js: the cart service of the      *)
(* QKart backend (getCartByUser, addProductToCart, updateProductInCart,    *)
(* deleteProductFromCart, checkout) over the persisted Cart collection,    *)
(* the read-only Product collection and the users' wallets.                *)
(*                                                                         *)
(* Spec      : calls run one after another; every call is one action that  *)
(*             models the whole handler, the store failures it can meet    *)
(*             included (parameter fail).                                  *)
(* ConcSpec  : addProductToCart calls of several requests interleave at    *)
(*             their awaits (Cart.findOne, Cart.create, Product.findById,  *)
(*             cart.save).                                                 *)
(***************************************************************************)
EXTENDS Integers, Sequences, FiniteSets

VARIABLES
    carts,      \* persisted Cart collection: user email -> cart document or NoCart
    wallet,     \* persisted User.walletMoney of every user
    address,    \* user.hasSetNonDefaultAddress() of every user (owned externally)
    last,       \* the last completed call: arguments, outcome and the store before it
    calls,      \* number of calls completed so far
    pc,         \* ConcSpec: the await each request is suspended at
    req,        \* ConcSpec: arguments of each request
    local,      \* ConcSpec: the in-memory cart document of each request
    res         \* ConcSpec: outcome of each finished request

vars == <<carts, wallet, address, last, calls, pc, req, local, res>>

----------------------------------------------------------------------------
(* Bounds of the model *)

MaxQty == 2
InitWallet == 4
MaxCalls == 4
NumProcs == 2

(* http-status codes used by the service *)
BAD_REQUEST == 400
NOT_FOUND == 404
INTERNAL_SERVER_ERROR == 500

\* user emails, the key of the Cart collection
Users == {"alice@qkart", "bob@qkart"}
\* ids stored in the Product collection
Products == {"p1", "p2"}
\* ids a caller can pass: the stored ones and one that resolves to no Product
ProductIds == Products \cup {"p404"}
Quantities == 1..MaxQty
Procs == 1..NumProcs

NoCart == [exists |-> FALSE]
Null == [exists |-> FALSE]
default_payment_option == "PAYMENT_OPTION_DEFAULT"

\* unit cost of a stored product (Product documents are read-only here)
ProductCost(p) == IF p = "p1" THEN 1 ELSE 2

\* variant: every id resolves to a product
Product_findById_AnyId(productId) ==
    [exists |-> TRUE, id |-> productId, cost |-> ProductCost(productId)]

\* Product.findById(productId)
Product_findById(productId) ==
    IF productId \in Products
    THEN [exists |-> TRUE, id |-> productId, cost |-> ProductCost(productId)]
    ELSE Null

\* the document Cart.create builds for a user
NewCart == [exists |-> TRUE, cartItems |-> <<>>, paymentOption |-> default_payment_option]

----------------------------------------------------------------------------
(* Pure helpers of the handlers *)

\* mongoose.Types.ObjectId(a).equals(mongoose.Types.ObjectId(b))
IdEquals(a, b) == a = b

\* variants of the duplicate check: none at all, and one that looks at the
\* first item only
isProductAlreadyPresent_NoCheck(cart, productId) == FALSE

isProductAlreadyPresent_FirstOnly(cart, productId) ==
    /\ cart.exists
    /\ Len(cart.cartItems) > 0
    /\ IdEquals(cart.cartItems[1].product.id, productId)

\* cart.cartItems.some(cartItem => id1.equals(id2))

isProductAlreadyPresent(cart, productId) ==
    IF ~cart.exists
    THEN FALSE
    ELSE \E i \in 1..Len(cart.cartItems) :
            IdEquals(cart.cartItems[i].product.id, productId)

\* cart.cartItems.findIndex(...): 1-based here, 0 stands for the source's -1
productIndex(cart, productId) ==
    IF ~cart.exists \/ ~isProductAlreadyPresent(cart, productId)
    THEN 0
    ELSE CHOOSE i \in 1..Len(cart.cartItems) :
            /\ IdEquals(cart.cartItems[i].product.id, productId)
            /\ \A j \in 1..(i - 1) :
                  ~IdEquals(cart.cartItems[j].product.id, productId)

\* variant: the filter keeps nothing
FilterOut_All(items, productId) == <<>>

RECURSIVE FilterOut(_, _)
\* cart.cartItems.filter(cartItem => !id1.equals(id2))
FilterOut(items, productId) ==
    IF items = <<>>
    THEN <<>>
    ELSE IF IdEquals(Head(items).product.id, productId)
         THEN FilterOut(Tail(items), productId)
         ELSE <<Head(items)>> \o FilterOut(Tail(items), productId)

\* cart.cartItems.push({ product: productInDB, quantity })
PushItem(items, product, quantity) ==
    Append(items, [product |-> [id |-> product.id, cost |-> product.cost],
                   quantity |-> quantity])

\* variant: the quantity is added to the stored one
SetQuantity_Add(items, idx, quantity) ==
    [items EXCEPT ![idx].quantity = @ + quantity]

\* cart.cartItems[productIndex].quantity = quantity
SetQuantity(items, idx, quantity) ==
    [items EXCEPT ![idx].quantity = quantity]

\* variant: the reduce forgets the quantity
RECURSIVE totalCost_IgnoreQuantity(_)
totalCost_IgnoreQuantity(items) ==
    IF items = <<>>
    THEN 0
    ELSE Head(items).product.cost + totalCost_IgnoreQuantity(Tail(items))

RECURSIVE totalCost(_)
\* cart.cartItems.reduce((cost, item) => cost + item.product.cost * item.quantity, 0)
totalCost(items) ==
    IF items = <<>>
    THEN 0
    ELSE Head(items).product.cost * Head(items).quantity + totalCost(Tail(items))

\* variant: the funds guard never rejects
InsufficientFunds_Never(cost, balance) == FALSE

\* totalCost > user.walletMoney
InsufficientFunds(cost, balance) == cost > balance

\* variant: the debit is applied twice
Debit_Twice(w, user, cost) == [w EXCEPT ![user] = @ - cost - cost]

\* user.walletMoney -= totalCost
Debit(w, user, cost) == [w EXCEPT ![user] = @ - cost]

----------------------------------------------------------------------------
(* The handlers as functions of the persisted store.  fail names the store *)
(* call that rejects during the call ("none": every store call succeeds).  *)
(* A result carries the store after the call, how the call ended           *)
(* ("returned", "ApiError" with its status, "StoreError" for a rejected    *)
(* store call that the handler does not catch) and the store call that     *)
(* actually rejected.  The writes are the calls that can reject here; the  *)
(* reads (findOne, findById, hasSetNonDefaultAddress) change nothing and   *)
(* are taken to answer.                                                    *)

FailPoints == {"none", "create", "userSave", "cartSave"}

Returned(cs, w) ==
    [carts |-> cs, wallet |-> w, outcome |-> "returned", status |-> 0, failed |-> "none"]

Thrown(cs, w, code, failed) ==
    [carts |-> cs, wallet |-> w, outcome |-> "ApiError", status |-> code, failed |-> failed]

Rejected(cs, w, failed) ==
    [carts |-> cs, wallet |-> w, outcome |-> "StoreError", status |-> 0, failed |-> failed]

\* variant: the lookup creates the missing cart
getCartByUser_Upsert(cs, w, user, fail) ==
    Returned([cs EXCEPT ![user] = IF cs[user].exists THEN cs[user] ELSE NewCart], w)

\* getCartByUser(user)
getCartByUser(cs, w, user, fail) ==
    IF ~cs[user].exists THEN Thrown(cs, w, NOT_FOUND, "none")
    ELSE Returned(cs, w)

\* addProductToCart(user, productId, quantity)
addProductToCart(cs, w, user, productId, quantity, fail) ==
    IF ~cs[user].exists /\ fail = "create"
    THEN Thrown(cs, w, INTERNAL_SERVER_ERROR, "create")
    ELSE
      LET cart == IF cs[user].exists THEN cs[user] ELSE NewCart
          \* Cart.create persists the empty cart before anything else is checked
          created == [cs EXCEPT ![user] = cart]
          productInDB == Product_findById(productId)
      IN  IF isProductAlreadyPresent(cart, productId)
          THEN Thrown(created, w, BAD_REQUEST, "none")
          ELSE IF ~productInDB.exists THEN Thrown(created, w, BAD_REQUEST, "none")
          ELSE IF fail = "cartSave" THEN Rejected(created, w, "cartSave")
          ELSE Returned(
                 [cs EXCEPT ![user] =
                    [cart EXCEPT !.cartItems = PushItem(cart.cartItems, productInDB, quantity)]],
                 w)

\* updateProductInCart(user, productId, quantity)
updateProductInCart(cs, w, user, productId, quantity, fail) ==
    IF ~cs[user].exists THEN Thrown(cs, w, BAD_REQUEST, "none")
    ELSE IF ~Product_findById(productId).exists THEN Thrown(cs, w, BAD_REQUEST, "none")
    ELSE
      LET cart == cs[user]
          idx == productIndex(cart, productId)
      IN  IF idx = 0 THEN Thrown(cs, w, BAD_REQUEST, "none")
          ELSE IF fail = "cartSave" THEN Rejected(cs, w, "cartSave")
          ELSE Returned(
                 [cs EXCEPT ![user] =
                    [cart EXCEPT !.cartItems = SetQuantity(cart.cartItems, idx, quantity)]],
                 w)

\* deleteProductFromCart(user, productId)
deleteProductFromCart(cs, w, user, productId, fail) ==
    IF ~cs[user].exists THEN Thrown(cs, w, BAD_REQUEST, "none")
    ELSE
      LET cart == cs[user]
          idx == productIndex(cart, productId)
      IN  IF idx = 0 THEN Thrown(cs, w, BAD_REQUEST, "none")
          ELSE IF fail = "cartSave" THEN Rejected(cs, w, "cartSave")
          ELSE Returned(
                 [cs EXCEPT ![user] =
                    [cart EXCEPT !.cartItems = FilterOut(cart.cartItems, productId)]],
                 w)

\* checkout(user)
checkout(cs, w, adr, user, fail) ==
    IF ~cs[user].exists THEN Thrown(cs, w, NOT_FOUND, "none")
    ELSE IF Len(cs[user].cartItems) = 0 THEN Thrown(cs, w, BAD_REQUEST, "none")
    ELSE IF ~adr[user] THEN Thrown(cs, w, BAD_REQUEST, "none")
    ELSE
      LET cart == cs[user]
          cost == totalCost(cart.cartItems)
      IN  IF InsufficientFunds(cost, w[user]) THEN Thrown(cs, w, BAD_REQUEST, "none")
          ELSE IF fail = "userSave" THEN Rejected(cs, w, "userSave")
          ELSE
            \* user.walletMoney -= totalCost; await user.save()
            LET debited == Debit(w, user, cost)
            IN  IF fail = "cartSave" THEN Rejected(cs, debited, "cartSave")
                ELSE Returned([cs EXCEPT ![user] = [cart EXCEPT !.cartItems = <<>>]],
                              debited)

----------------------------------------------------------------------------
(* Spec: calls one after another *)

NoCall ==
    [op |-> "none", user |-> "", productId |-> "", quantity |-> 0,
     outcome |-> "returned", status |-> 0, failed |-> "none"]

\* what a completed call leaves in last
Done(op, user, productId, quantity, r) ==
    [op |-> op, user |-> user, productId |-> productId, quantity |-> quantity,
     outcome |-> r.outcome, status |-> r.status, failed |-> r.failed,
     preCarts |-> carts, preWallet |-> wallet]

Idle ==
    /\ pc = [p \in Procs |-> "idle"]
    /\ req = [p \in Procs |-> NoCall]
    /\ local = [p \in Procs |-> NoCart]
    /\ res = [p \in Procs |-> NoCall]

\* No user has a cart yet.  The users are owned elsewhere: both start with
\* the same balance, the first has set a non-default address and the second
\* has not.
Init ==
    /\ carts = [u \in Users |-> NoCart]
    /\ wallet = [u \in Users |-> InitWallet]
    /\ address = [u \in Users |-> u = "alice@qkart"]
    /\ last = NoCall
    /\ calls = 0
    /\ Idle

\* the store call named by fail is the one the call reaches and that rejects
Apply(op, user, productId, quantity, fail, r) ==
    /\ calls < MaxCalls
    /\ r.failed = fail
    /\ carts' = r.carts
    /\ wallet' = r.wallet
    /\ last' = Done(op, user, productId, quantity, r)
    /\ calls' = calls + 1
    /\ UNCHANGED <<address, pc, req, local, res>>

GetCartByUser ==
    \E user \in Users, fail \in FailPoints :
        Apply("getCartByUser", user, "", 0, fail, getCartByUser(carts, wallet, user, fail))

AddProductToCart ==
    \E user \in Users, productId \in ProductIds, quantity \in Quantities, fail \in FailPoints :
        Apply("addProductToCart", user, productId, quantity, fail,
              addProductToCart(carts, wallet, user, productId, quantity, fail))

UpdateProductInCart ==
    \E user \in Users, productId \in ProductIds, quantity \in Quantities, fail \in FailPoints :
        Apply("updateProductInCart", user, productId, quantity, fail,
              updateProductInCart(carts, wallet, user, productId, quantity, fail))

DeleteProductFromCart ==
    \E user \in Users, productId \in ProductIds, fail \in FailPoints :
        Apply("deleteProductFromCart", user, productId, 0, fail,
              deleteProductFromCart(carts, wallet, user, productId, fail))

Checkout ==
    \E user \in Users, fail \in FailPoints :
        Apply("checkout", user, "", 0, fail, checkout(carts, wallet, address, user, fail))

Next ==
    \/ GetCartByUser
    \/ AddProductToCart
    \/ UpdateProductInCart
    \/ DeleteProductFromCart
    \/ Checkout

Spec == Init /\ [][Next]_vars

----------------------------------------------------------------------------
(* ConcSpec: addProductToCart requests interleaving at their awaits.  Each *)
(* request runs the handler once; the code between two awaits is one step. *)

\* what cart.save() writes after cartItems.push: mongoose sends the pushed
\* element as a $push on the stored array, not the array it has in memory
SaveOverwrite(persisted, doc) == doc

SavePushed(persisted, doc) ==
    [persisted EXCEPT !.cartItems = Append(@, doc.cartItems[Len(doc.cartItems)])]

Finish(p, outcome, status) ==
    /\ pc' = [pc EXCEPT ![p] = "done"]
    /\ res' = [res EXCEPT ![p] = [outcome |-> outcome, status |-> status]]

\* a request arrives: addProductToCart(user, productId, quantity) is called
AddCall(p) ==
    /\ pc[p] = "idle"
    /\ \E user \in Users, productId \in ProductIds, quantity \in Quantities :
          req' = [req EXCEPT ![p] = [NoCall EXCEPT !.op = "addProductToCart",
                                                   !.user = user,
                                                   !.productId = productId,
                                                   !.quantity = quantity]]
    /\ pc' = [pc EXCEPT ![p] = "findOne"]
    /\ UNCHANGED <<carts, wallet, address, last, calls, local, res>>

\* the duplicate check that follows the lookup or the creation of the cart
AddCheck(p, cart) ==
    IF isProductAlreadyPresent(cart, req[p].productId)
    THEN Finish(p, "ApiError", BAD_REQUEST)
    ELSE pc' = [pc EXCEPT ![p] = "findById"] /\ UNCHANGED res

\* await Cart.findOne({ email }) answers
AddFindOne(p) ==
    /\ pc[p] = "findOne"
    /\ local' = [local EXCEPT ![p] = carts[req[p].user]]
    /\ IF ~carts[req[p].user].exists
       THEN pc' = [pc EXCEPT ![p] = "create"] /\ UNCHANGED res
       ELSE AddCheck(p, carts[req[p].user])
    /\ UNCHANGED <<carts, wallet, address, last, calls, req>>

\* await Cart.create(...) answers; email is the unique key of the collection,
\* so creating a second cart for the same email is rejected
AddCreate(p) ==
    /\ pc[p] = "create"
    /\ IF carts[req[p].user].exists
       THEN /\ Finish(p, "ApiError", INTERNAL_SERVER_ERROR)
            /\ UNCHANGED <<carts, local>>
       ELSE /\ carts' = [carts EXCEPT ![req[p].user] = NewCart]
            /\ local' = [local EXCEPT ![p] = NewCart]
            /\ AddCheck(p, NewCart)
    /\ UNCHANGED <<wallet, address, last, calls, req>>

\* await Product.findById(productId) answers; the item is pushed in memory
AddFindById(p) ==
    /\ pc[p] = "findById"
    /\ LET productInDB == Product_findById(req[p].productId)
       IN  IF ~productInDB.exists
           THEN Finish(p, "ApiError", BAD_REQUEST) /\ UNCHANGED local
           ELSE /\ local' = [local EXCEPT ![p].cartItems =
                                PushItem(@, productInDB, req[p].quantity)]
                /\ pc' = [pc EXCEPT ![p] = "save"]
                /\ UNCHANGED res
    /\ UNCHANGED <<carts, wallet, address, last, calls, req>>

\* await cart.save() answers
AddSave(p) ==
    /\ pc[p] = "save"
    /\ carts' = [carts EXCEPT ![req[p].user] = SavePushed(@, local[p])]
    /\ Finish(p, "returned", 0)
    /\ UNCHANGED <<wallet, address, last, calls, req, local>>

ConcNext ==
    \E p \in Procs :
        \/ AddCall(p)
        \/ AddFindOne(p)
        \/ AddCreate(p)
        \/ AddFindById(p)
        \/ AddSave(p)

ConcSpec == Init /\ [][ConcNext]_vars

----------------------------------------------------------------------------
(* Vocabulary of the properties *)

\* number of CartItems of a cart document that refer to product id
Count(cart, id) ==
    IF ~cart.exists
    THEN 0
    ELSE Cardinality({i \in 1..Len(cart.cartItems) : cart.cartItems[i].product.id = id})

\* quantity of the first CartItem for product id
QuantityOf(cart, id) ==
    cart.cartItems[CHOOSE i \in 1..Len(cart.cartItems) :
                      /\ cart.cartItems[i].product.id = id
                      /\ \A j \in 1..(i - 1) : cart.cartItems[j].product.id # id].quantity

RECURSIVE SumCost(_, _)
\* sum over the first n items of (cost of the product in the catalogue x quantity)
SumCost(items, n) ==
    IF n = 0
    THEN 0
    ELSE SumCost(items, n - 1) + ProductCost(items[n].product.id) * items[n].quantity

CartTotal(cart) == SumCost(cart.cartItems, Len(cart.cartItems))

\* the items of a list that do not refer to product id, in their order
Without(items, id) ==
    LET Keep(it) == it.product.id # id
    IN  SelectSeq(items, Keep)

StoreUnchanged == carts = last.preCarts /\ wallet = last.preWallet

OthersUnchanged(user) ==
    \A v \in Users \ {user} : carts[v] = last.preCarts[v] /\ wallet[v] = last.preWallet[v]

Failed400 == last.outcome = "ApiError" /\ last.status = BAD_REQUEST
Failed404 == last.outcome = "ApiError" /\ last.status = NOT_FOUND

----------------------------------------------------------------------------
(* C1 *)

\* C1: in every state reached by any sequence of addProductToCart,
\* updateProductInCart, deleteProductFromCart and checkout calls, every
\* persisted cart holds at most one CartItem per product id.
C1_UniqueProducts ==
    \A u \in Users : \A id \in ProductIds : Count(carts[u], id) <= 1

\* a successful add has just put a second product next to the first
C1_Witness ==
    /\ last.op = "addProductToCart"
    /\ last.outcome = "returned"
    /\ last.preCarts[last.user].exists
    /\ Len(last.preCarts[last.user].cartItems) = 1
    /\ Len(carts[last.user].cartItems) = 2

----------------------------------------------------------------------------
(* C2 *)

\* C2 (as claimed): after a checkout ends, however it ends, either the
\* wallet is debited by the cart total and the cart is empty, or wallet and
\* cart are as before the call.
C2_AllOrNothing ==
    last.op = "checkout" =>
        LET u == last.user
        IN  \/ /\ last.preCarts[u].exists
               /\ wallet[u] = last.preWallet[u] - CartTotal(last.preCarts[u])
               /\ carts[u].exists
               /\ carts[u].cartItems = <<>>
            \/ /\ wallet[u] = last.preWallet[u]
               /\ carts[u] = last.preCarts[u]

\* C2 (amended): a checkout that returns has debited the wallet by the cart
\* total and emptied the cart; one that is rejected by a guard or whose user
\* persist fails leaves wallet and cart as they were; one whose cart persist
\* fails after the user persist leaves the wallet debited by the cart total
\* and the cart with all its items.  Nothing else is touched.
C2_AllOrNothingUnlessCartSaveFails ==
    last.op = "checkout" =>
        LET u == last.user
        IN  /\ OthersUnchanged(u)
            /\ \/ /\ last.outcome = "returned"
                  /\ wallet[u] = last.preWallet[u] - CartTotal(last.preCarts[u])
                  /\ carts[u].exists
                  /\ carts[u].cartItems = <<>>
               \/ /\ last.outcome = "ApiError" \/ last.failed = "userSave"
                  /\ wallet[u] = last.preWallet[u]
                  /\ carts[u] = last.preCarts[u]
               \/ /\ last.failed = "cartSave"
                  /\ wallet[u] = last.preWallet[u] - CartTotal(last.preCarts[u])
                  /\ carts[u] = last.preCarts[u]
                  /\ carts[u].cartItems # <<>>

\* the cart persist of a checkout failed after the wallet was debited
C2_Witness ==
    /\ last.op = "checkout"
    /\ last.failed = "cartSave"
    /\ wallet[last.user] < last.preWallet[last.user]
    /\ carts[last.user].cartItems # <<>>

----------------------------------------------------------------------------
(* C3 *)

\* C3: for a user with a non-default address whose cart has at least one
\* item and total cost C <= wallet balance, a checkout whose store calls
\* answer returns; the wallet is then the old balance minus C, not negative,
\* and the cart record exists with an empty item list.
C3_CheckoutSucceeds ==
    (/\ last.op = "checkout"
     /\ last.failed = "none"
     /\ address[last.user]
     /\ last.preCarts[last.user].exists
     /\ Len(last.preCarts[last.user].cartItems) >= 1
     /\ CartTotal(last.preCarts[last.user]) <= last.preWallet[last.user])
    => /\ last.outcome = "returned"
       /\ wallet[last.user] = last.preWallet[last.user] - CartTotal(last.preCarts[last.user])
       /\ wallet[last.user] >= 0
       /\ carts[last.user].exists
       /\ carts[last.user].cartItems = <<>>

\* a checkout of two items whose total is exactly the balance has returned
C3_Witness ==
    /\ last.op = "checkout"
    /\ last.outcome = "returned"
    /\ Len(last.preCarts[last.user].cartItems) = 2
    /\ CartTotal(last.preCarts[last.user]) = last.preWallet[last.user]
    /\ wallet[last.user] = 0
    /\ carts[last.user] = NewCart

----------------------------------------------------------------------------
(* C4 *)

\* C4: a checkout of an existing cart fails with 400 and leaves every wallet
\* and every cart as they were when the cart has no items, when the user has
\* not set a non-default address, and when the total exceeds the balance.
C4_RejectedCheckoutChangesNothing ==
    (/\ last.op = "checkout"
     /\ last.preCarts[last.user].exists
     /\ \/ Len(last.preCarts[last.user].cartItems) = 0
        \/ ~address[last.user]
        \/ CartTotal(last.preCarts[last.user]) > last.preWallet[last.user])
    => /\ Failed400
       /\ StoreUnchanged

\* a checkout was rejected because the total exceeds the balance
C4_Witness ==
    /\ last.op = "checkout"
    /\ Failed400
    /\ address[last.user]
    /\ last.preCarts[last.user].exists
    /\ CartTotal(last.preCarts[last.user]) > last.preWallet[last.user]
    /\ carts[last.user].cartItems # <<>>

----------------------------------------------------------------------------
(* C5 *)

\* C5: addProductToCart of a product that is already in the user's cart
\* fails with 400; the store is unchanged, so the cart still has exactly one
\* CartItem for the product, with the quantity it had.
C5_SecondAddRejected ==
    (/\ last.op = "addProductToCart"
     /\ Count(last.preCarts[last.user], last.productId) >= 1)
    => /\ Failed400
       /\ StoreUnchanged
       /\ Count(carts[last.user], last.productId) = 1
       /\ QuantityOf(carts[last.user], last.productId)
             = QuantityOf(last.preCarts[last.user], last.productId)

\* a second add of the same product, with another quantity, was rejected
C5_Witness ==
    /\ last.op = "addProductToCart"
    /\ Failed400
    /\ Count(last.preCarts[last.user], last.productId) = 1
    /\ QuantityOf(carts[last.user], last.productId) # last.quantity

----------------------------------------------------------------------------
(* C6 *)

\* C6 (as claimed): addProductToCart with an id that resolves to no Product
\* fails with 400 and leaves the Cart store unchanged, no cart record being
\* created (every store call answering).
C6_MissingProductLeavesStore ==
    (/\ last.op = "addProductToCart"
     /\ last.failed = "none"
     /\ last.productId \notin Products)
    => /\ Failed400
       /\ carts = last.preCarts

\* C6 (amended): addProductToCart with an id that resolves to no Product
\* never adds an item: the wallets, the other users' carts and the item list
\* of an existing cart are unchanged.  The call fails with 400, and a user
\* who had no cart is left with a new cart that has no items; only when the
\* creation of that cart is rejected does the call fail with 500 instead and
\* leave the user without a cart.
C6_MissingProductAddsNoItem ==
    (last.op = "addProductToCart" /\ last.productId \notin Products)
    => LET u == last.user
       IN  /\ wallet = last.preWallet
           /\ OthersUnchanged(u)
           /\ last.outcome = "ApiError"
           /\ IF last.preCarts[u].exists
              THEN last.status = BAD_REQUEST /\ carts[u] = last.preCarts[u]
              ELSE IF last.failed = "create"
                   THEN last.status = INTERNAL_SERVER_ERROR /\ carts[u] = NoCart
                   ELSE last.status = BAD_REQUEST /\ carts[u] = NewCart

\* an add of an unknown product by a user without a cart was rejected with
\* 400 and left an empty cart behind
C6_Witness ==
    /\ last.op = "addProductToCart"
    /\ last.productId \notin Products
    /\ Failed400
    /\ ~last.preCarts[last.user].exists
    /\ carts[last.user] = NewCart

----------------------------------------------------------------------------
(* C7 *)

\* C7: updateProductInCart(user, p, q) for a stored product p that is in the
\* cart sets the quantity of that item to q and changes nothing else; doing
\* the same update again gives the same store.  For a stored product that
\* is not in the cart it fails with 400 and the store is unchanged.
C7_UpdateSetsQuantity ==
    (/\ last.op = "updateProductInCart"
     /\ last.failed = "none"
     /\ last.productId \in Products
     /\ last.preCarts[last.user].exists)
    => LET u == last.user
           pre == last.preCarts[u].cartItems
           post == carts[u].cartItems
       IN  IF Count(last.preCarts[u], last.productId) = 0
           THEN Failed400 /\ StoreUnchanged
           ELSE /\ last.outcome = "returned"
                /\ wallet = last.preWallet
                /\ OthersUnchanged(u)
                /\ carts[u].paymentOption = last.preCarts[u].paymentOption
                /\ Len(post) = Len(pre)
                /\ \A i \in 1..Len(pre) :
                      /\ post[i].product = pre[i].product
                      /\ post[i].quantity =
                            IF pre[i].product.id = last.productId
                            THEN last.quantity
                            ELSE pre[i].quantity
                /\ updateProductInCart(carts, wallet, u, last.productId,
                                       last.quantity, "none").carts = carts

\* an update changed the quantity of one of two items
C7_Witness ==
    /\ last.op = "updateProductInCart"
    /\ last.outcome = "returned"
    /\ Len(carts[last.user].cartItems) = 2
    /\ QuantityOf(last.preCarts[last.user], last.productId) # last.quantity
    /\ QuantityOf(carts[last.user], last.productId) = last.quantity

----------------------------------------------------------------------------
(* C8 *)

\* C8: deleteProductFromCart(user, p) on a cart that contains p removes the
\* item for p and leaves the other items, their order and their quantities;
\* the cart record stays, also when p was its only item, so that a following
\* getCartByUser returns and a following checkout of the emptied cart fails
\* with 400, not 404.
C8_DeleteRemovesOneItem ==
    (/\ last.op = "deleteProductFromCart"
     /\ last.failed = "none"
     /\ Count(last.preCarts[last.user], last.productId) >= 1)
    => LET u == last.user
           pre == last.preCarts[u].cartItems
       IN  /\ last.outcome = "returned"
           /\ wallet = last.preWallet
           /\ OthersUnchanged(u)
           /\ carts[u].exists
           /\ carts[u].cartItems = Without(pre, last.productId)
           /\ Len(carts[u].cartItems) = Len(pre) - 1
           /\ getCartByUser(carts, wallet, u, "none").outcome = "returned"
           /\ Len(pre) = 1 =>
                 /\ carts[u].cartItems = <<>>
                 /\ checkout(carts, wallet, address, u, "none").outcome = "ApiError"
                 /\ checkout(carts, wallet, address, u, "none").status = BAD_REQUEST

\* the only item of a cart was deleted
C8_Witness ==
    /\ last.op = "deleteProductFromCart"
    /\ last.outcome = "returned"
    /\ Len(last.preCarts[last.user].cartItems) = 1
    /\ carts[last.user] = NewCart

----------------------------------------------------------------------------
(* C9 *)

\* C9: for a user without a cart, getCartByUser and checkout fail with 404,
\* updateProductInCart and deleteProductFromCart fail with 400, and the
\* store is as before the call; no call other than addProductToCart changes
\* which users have a cart.
C9_OnlyAddCreatesCart ==
    /\ (last.op \in {"getCartByUser", "checkout"} /\ ~last.preCarts[last.user].exists)
          => Failed404 /\ StoreUnchanged
    /\ (last.op \in {"updateProductInCart", "deleteProductFromCart"}
           /\ ~last.preCarts[last.user].exists)
          => Failed400 /\ StoreUnchanged
    /\ last.op \in {"getCartByUser", "checkout", "updateProductInCart", "deleteProductFromCart"}
          => \A u \in Users : carts[u].exists = last.preCarts[u].exists

\* a checkout by a user without a cart failed with 404 while another user
\* has a cart with an item
C9_Witness ==
    /\ last.op = "checkout"
    /\ Failed404
    /\ ~carts[last.user].exists
    /\ \E v \in Users \ {last.user} : carts[v].exists /\ carts[v].cartItems # <<>>

----------------------------------------------------------------------------
(* C10 *)

\* the requests that have returned from addProductToCart(user, id, _)
Added(user, id) ==
    {p \in Procs : /\ pc[p] = "done"
                   /\ res[p].outcome = "returned"
                   /\ req[p].user = user
                   /\ req[p].productId = id}

\* C10: concurrent addProductToCart calls are not serialized per cart: every
\* call that returns has added its own CartItem, so when two calls for the
\* same user and product both pass the duplicate check before either saves,
\* both return and the persisted cart holds two CartItems for the product.
C10_EveryReturnedAddLeavesItsItem ==
    \A u \in Users : \A id \in ProductIds :
        Count(carts[u], id) = Cardinality(Added(u, id))

\* two requests for the same user and product have both returned and the
\* persisted cart holds two CartItems for that product
C10_Witness ==
    \E a \in Procs : \E b \in Procs \ {a} :
        /\ b \in Added(req[a].user, req[a].productId)
        /\ a \in Added(req[a].user, req[a].productId)
        /\ Count(carts[req[a].user], req[a].productId) = 2

====
